---- MODULE Spec2Model ----
(***************************************************************************)
(* Model of revolut_to_xml.py: the conversion of a Revolut Business CSV    *)
(* statement into a camt.053.001.02 document.                              *)
(*                                                                         *)
(* Python values are modelled as follows.                                  *)
(*   - A str is a record [k |-> "str", txt, pad]: txt is the text without  *)
(*     surrounding whitespace and pad says whether the string carries      *)
(*     surrounding whitespace (" txt ").  The empty string is txt = "",    *)
(*     pad = FALSE; a whitespace-only string is txt = "", pad = TRUE.      *)
(*   - None is the record with k = "none"; a key that a row dict does not  *)
(*     hold (the CSV header lacks the column) has k = "absent".            *)
(*   - A Decimal is an integer number of thousandths (exact arithmetic).   *)
(*   - A date is its ordinal day number.                                   *)
(*   - An optional XML child element is a sequence of length 0 or 1.       *)
(* GrpHdr, the Acct block and the Stmt Id hold no data the properties      *)
(* below read (fixed identities and the wall clock) and are left out of    *)
(* the tree.                                                               *)
(***************************************************************************)
EXTENDS Integers, Sequences, FiniteSets, TLC

VARIABLES csv_file, args_output, pc, rows, first_date, last_date,
          opening_balance, closing_balance, totals, stmt, idx, tree,
          output_path, out_opens, out_file, exit_status

vars == <<csv_file, args_output, pc, rows, first_date, last_date,
          opening_balance, closing_balance, totals, stmt, idx, tree,
          output_path, out_opens, out_file, exit_status>>

MaxRows == 3

(***************************************************************************)
(* Python values                                                           *)
(***************************************************************************)
S(s) == [k |-> "str", txt |-> s, pad |-> FALSE]

Padded(s) == [k |-> "str", txt |-> s, pad |-> TRUE]

None == [k |-> "none", txt |-> "", pad |-> FALSE]

Absent == [k |-> "absent", txt |-> "", pad |-> FALSE]

\* bool(s) of a str: only the empty string is false
Truthy(s) == s.txt # "" \/ s.pad

\* str.strip(); raises AttributeError on None
strip_raises(s) == s.k # "str"

strip(s) == [s EXCEPT !.pad = FALSE]

\* row[key]: KeyError when the column is absent
GetItemRaises(row, key) == row[key].k = "absent"

\* row.get(key, default)
Get(row, key, default) == IF row[key].k = "absent" THEN default ELSE row[key]

abs(d) == IF d < 0 THEN -d ELSE d

\* str(int)
str(n) == S(ToString(n))

(***************************************************************************)
(* Module constants                                                        *)
(***************************************************************************)
ACCOUNT_OWNER == S("Nethemba s.r.o.")

ACCOUNT_ADDR_LINE1 == S("Grosslingova 2503/62")

ACCOUNT_ADDR_LINE2 == S("Bratislava - St. Mesto 81109 SK")

SERVICER_BIC == S("REVOLT21")

SERVICER_NAME == S("Revolut Bank UAB")

TX_CODES == ("CARD_PAYMENT" :> "30000301000") @@ ("TOPUP" :> "10000405000")
            @@ ("FEE" :> "40000605000") @@ ("TRANSFER" :> "20000405000")

TX_INFO == ("CARD_PAYMENT" :> "Kartova transakcia") @@ ("TOPUP" :> "Prijata platba")
           @@ ("FEE" :> "Poplatok") @@ ("TRANSFER" :> "Odchadzajuca platba")

\* dict.get(key, default) on the two tables: the key matches only as the exact text
TableGet(table, key, default) ==
    IF key.k = "str" /\ ~key.pad /\ key.txt \in DOMAIN table
    THEN S(table[key.txt]) ELSE default

(***************************************************************************)
(* Text literals the inputs are drawn from, with their values              *)
(***************************************************************************)
\* Decimal(text): the decimal literals of the model, in thousandths
DecimalOf == ("0" :> 0) @@ ("1.005" :> 1005) @@ ("-1.005" :> -1005)
             @@ ("10.00" :> 10000) @@ ("2.50" :> 2500) @@ ("-2.50" :> -2500)
             @@ ("50.00" :> 50000) @@ ("-50.005" :> -50005)
             @@ ("45.454" :> 45454) @@ ("-45.455" :> -45455)

\* strptime(text, "%Y-%m-%d"): the date literals of the model, as ordinals
DateOf == ("2026-01-15" :> 739631) @@ ("2026-01-31" :> 739647)
          @@ ("2026-02-01" :> 739648)

\* date.isoformat()
isoformat(d) == S(CHOOSE t \in DOMAIN DateOf : DateOf[t] = d)

\* re.match(r"Money added from (.+)", text, IGNORECASE).group(1).strip()
MoneyAddedFrom == ("Money added from ACME CORP" :> "ACME CORP")
                  @@ ("money ADDED from Bob" :> "Bob")

(***************************************************************************)
(* parse_date, dec, fmt_amt, extract_sender_name                           *)
(***************************************************************************)
parse_date_raises(s) ==
    \/ strip_raises(s)
    \/ strip(s).pad
    \/ strip(s).txt \notin DOMAIN DateOf

parse_date(s) == DateOf[strip(s).txt]

\* Decimal(text) itself tolerates surrounding whitespace but not an empty
\* or whitespace-only text
dec_raises(s) ==
    \/ strip_raises(s)
    \/ /\ Truthy(strip(s))
       /\ strip(s).txt \notin DOMAIN DecimalOf

dec(s) == IF ~Truthy(strip(s)) THEN 0 ELSE DecimalOf[strip(s).txt]

\* quantize without the rounding argument: the context default, ROUND_HALF_EVEN
QuantizeHalfEven(d) ==
    IF abs(d) % 10 > 5 \/ (abs(d) % 10 = 5 /\ (abs(d) \div 10) % 2 = 1)
    THEN abs(d) \div 10 + 1
    ELSE abs(d) \div 10

\* d.quantize(Decimal("0.01"), rounding=ROUND_HALF_UP) on thousandths:
\* the magnitude in hundredths, ties away from zero
Quantize(d) == (abs(d) + 5) \div 10

\* str() of the quantized Decimal: sign, integer part, exactly two decimals
fmt_amt(d) == [neg   |-> d < 0,
               units |-> Quantize(d) \div 100,
               d1    |-> (Quantize(d) % 100) \div 10,
               d2    |-> Quantize(d) % 10]

\* re.match anchors at the start of the unstripped text
extract_sender_name(description) ==
    IF ~description.pad /\ description.txt \in DOMAIN MoneyAddedFrom
    THEN S(MoneyAddedFrom[description.txt])
    ELSE description

(***************************************************************************)
(* read_csv                                                                *)
(***************************************************************************)
Reverse(s) == [i \in 1..Len(s) |-> s[Len(s) + 1 - i]]

\* read_csv without rows.reverse()
read_csv_unreversed(f) == f

read_csv(f) == Reverse(f)

(***************************************************************************)
(* _add_balance                                                            *)
(***************************************************************************)
\* the direction test with > in place of >=
CdtDbtIndStrict(amount) == IF amount > 0 THEN S("CRDT") ELSE S("DBIT")

CdtDbtInd(amount) == IF amount >= 0 THEN S("CRDT") ELSE S("DBIT")

_add_balance(code, amount, dt) ==
    [Cd        |-> S(code),
     Ccy       |-> S("EUR"),
     Amt       |-> fmt_amt(abs(amount)),
     CdtDbtInd |-> CdtDbtInd(amount),
     Dt        |-> isoformat(dt)]

(***************************************************************************)
(* _add_related_parties, _add_related_agents                               *)
(***************************************************************************)
_add_related_parties_raises(row, is_credit) ==
    /\ is_credit
    /\ \/ Get(row, "Description", S("")).k # "str"
       \/ strip_raises(Get(row, "Beneficiary IBAN", S("")))
       \/ strip_raises(Get(row, "Beneficiary BIC", S("")))

_add_related_parties(row, is_credit, iban) ==
    IF is_credit
    THEN LET sender_name == extract_sender_name(Get(row, "Description", S("")))
             beneficiary_iban == strip(Get(row, "Beneficiary IBAN", S("")))
         IN  [Dbtr     |-> <<[Nm |-> sender_name, PstlAdr |-> <<>>]>>,
              DbtrAcct |-> IF Truthy(beneficiary_iban)
                           THEN <<[IBAN |-> beneficiary_iban, Nm |-> sender_name]>>
                           ELSE <<>>,
              Cdtr     |-> <<[Nm |-> ACCOUNT_OWNER,
                              PstlAdr |-> <<ACCOUNT_ADDR_LINE1, ACCOUNT_ADDR_LINE2>>]>>,
              CdtrAcct |-> <<[IBAN |-> iban, Nm |-> ACCOUNT_OWNER]>>]
    ELSE [Dbtr     |-> <<[Nm |-> ACCOUNT_OWNER,
                          PstlAdr |-> <<ACCOUNT_ADDR_LINE1, ACCOUNT_ADDR_LINE2>>]>>,
          DbtrAcct |-> <<[IBAN |-> iban, Nm |-> ACCOUNT_OWNER]>>,
          Cdtr     |-> <<>>,
          CdtrAcct |-> <<>>]

_add_related_agents_raises(row, is_credit) ==
    /\ is_credit
    /\ strip_raises(Get(row, "Beneficiary BIC", S("")))

\* related agents that ignore the beneficiary BIC
_add_related_agents_servicer_only(row, is_credit) ==
    IF is_credit
    THEN [DbtrAgt |-> <<[BIC |-> SERVICER_BIC, Nm |-> <<SERVICER_NAME>>]>>,
          CdtrAgt |-> <<[BIC |-> SERVICER_BIC, Nm |-> <<SERVICER_NAME>>]>>]
    ELSE [DbtrAgt |-> <<[BIC |-> SERVICER_BIC, Nm |-> <<SERVICER_NAME>>]>>,
          CdtrAgt |-> <<>>]

_add_related_agents(row, is_credit) ==
    IF is_credit
    THEN LET beneficiary_bic == strip(Get(row, "Beneficiary BIC", S("")))
         IN  [DbtrAgt |-> IF Truthy(beneficiary_bic)
                          THEN <<[BIC |-> beneficiary_bic, Nm |-> <<>>]>>
                          ELSE <<[BIC |-> SERVICER_BIC, Nm |-> <<SERVICER_NAME>>]>>,
              CdtrAgt |-> <<[BIC |-> SERVICER_BIC, Nm |-> <<SERVICER_NAME>>]>>]
    ELSE [DbtrAgt |-> <<[BIC |-> SERVICER_BIC, Nm |-> <<SERVICER_NAME>>]>>,
          CdtrAgt |-> <<>>]

(***************************************************************************)
(* _add_entry                                                              *)
(***************************************************************************)
\* the foreign-currency condition without the comparison of the two currencies
IsForeignAnyCcy(orig_ccy, payment_ccy, orig_amount_str, xchg_rate) ==
    /\ Truthy(orig_ccy)
    /\ Truthy(orig_amount_str)
    /\ Truthy(xchg_rate)

\* the condition of the foreign-currency branch
IsForeign(orig_ccy, payment_ccy, orig_amount_str, xchg_rate) ==
    /\ Truthy(orig_ccy)
    /\ orig_ccy # payment_ccy
    /\ Truthy(orig_amount_str)
    /\ Truthy(xchg_rate)

\* the AmtDtls block
AmtDtls_raises(row) ==
    \/ strip_raises(Get(row, "Orig currency", S("")))
    \/ strip_raises(Get(row, "Orig amount", S("")))
    \/ strip_raises(Get(row, "Exchange rate", S("")))
    \/ /\ IsForeign(strip(Get(row, "Orig currency", S(""))),
                    strip(Get(row, "Payment currency", S("EUR"))),
                    strip(Get(row, "Orig amount", S(""))),
                    strip(Get(row, "Exchange rate", S(""))))
       /\ \/ dec_raises(strip(Get(row, "Orig amount", S(""))))
          \/ dec_raises(Get(row, "Amount", S("0")))

AmtDtls(row, payment_ccy, abs_amount) ==
    LET orig_ccy == strip(Get(row, "Orig currency", S("")))
        orig_amount_str == strip(Get(row, "Orig amount", S("")))
        xchg_rate == strip(Get(row, "Exchange rate", S("")))
    IN  IF IsForeign(orig_ccy, payment_ccy, orig_amount_str, xchg_rate)
        THEN [InstdAmt   |-> <<[Ccy |-> orig_ccy,
                                Amt |-> fmt_amt(abs(dec(orig_amount_str)))]>>,
              CntrValAmt |-> <<[Ccy |-> payment_ccy,
                                Amt |-> fmt_amt(abs(dec(Get(row, "Amount", S("0"))))),
                                CcyXchg |-> [SrcCcy   |-> orig_ccy,
                                             TrgtCcy  |-> payment_ccy,
                                             XchgRate |-> xchg_rate]]>>]
        ELSE [InstdAmt   |-> <<[Ccy |-> payment_ccy, Amt |-> fmt_amt(abs_amount)]>>,
              CntrValAmt |-> <<>>]

\* the remittance text: the parts that "; ".join() joins
RmtParts(description, reference) ==
    (IF Truthy(description) THEN <<description>> ELSE <<>>)
    \o (IF Truthy(reference) THEN <<reference>> ELSE <<>>)

\* is_credit = total_amount >= 0
EntryIsCredit(total_amount) == total_amount >= 0

_add_entry_raises(row) ==
    \/ GetItemRaises(row, "Total amount")
    \/ dec_raises(row["Total amount"])
    \/ GetItemRaises(row, "Date completed (UTC)")
    \/ parse_date_raises(row["Date completed (UTC)"])
    \/ GetItemRaises(row, "Type")
    \/ strip_raises(Get(row, "Description", S("")))
    \/ strip_raises(Get(row, "Reference", S("")))
    \/ strip_raises(Get(row, "ID", S("")))
    \/ strip_raises(Get(row, "Payment currency", S("EUR")))
    \/ AmtDtls_raises(row)
    \/ _add_related_parties_raises(row, EntryIsCredit(dec(row["Total amount"])))
    \/ _add_related_agents_raises(row, EntryIsCredit(dec(row["Total amount"])))

_add_entry(row, seq, iban) ==
    LET total_amount == dec(row["Total amount"])
        is_credit == EntryIsCredit(total_amount)
        abs_amount == abs(total_amount)
        completed_date == parse_date(row["Date completed (UTC)"])
        tx_type == row["Type"]
        tx_code == TableGet(TX_CODES, tx_type, S("99999999999"))
        tx_info == TableGet(TX_INFO, tx_type, tx_type)
        description == strip(Get(row, "Description", S("")))
        reference == strip(Get(row, "Reference", S("")))
        tx_id == strip(Get(row, "ID", S("")))
        payment_ccy == strip(Get(row, "Payment currency", S("EUR")))
    IN  [NtryRef    |-> str(seq),
         Amt        |-> [Ccy |-> payment_ccy, Amt |-> fmt_amt(abs_amount)],
         CdtDbtInd  |-> IF is_credit THEN S("CRDT") ELSE S("DBIT"),
         BookgDt    |-> isoformat(completed_date),
         ValDt      |-> isoformat(completed_date),
         BkTxCd     |-> tx_code,
         Refs       |-> [AcctSvcrRef |-> str(seq), TxId |-> tx_id],
         AmtDtls    |-> AmtDtls(row, payment_ccy, abs_amount),
         RltdPties  |-> _add_related_parties(row, is_credit, iban),
         RltdAgts   |-> _add_related_agents(row, is_credit),
         Ustrd      |-> IF RmtParts(description, reference) # <<>>
                        THEN RmtParts(description, reference)
                        ELSE <<tx_type>>,
         AddtlTxInf |-> tx_info]

(***************************************************************************)
(* build_xml: the aggregation pass and the summary block                   *)
(***************************************************************************)
\* the aggregation test with > in place of >=
SummaryIsCreditStrict(amt) == amt > 0

\* the test "amt >= 0" of the aggregation pass
SummaryIsCredit(amt) == amt >= 0

\* the loop "for r in rows" over the first n rows
RECURSIVE SummaryLoop(_, _)
SummaryLoop(rs, n) ==
    IF n = 0
    THEN [total_credit |-> 0, total_debit |-> 0, count_credit |-> 0, count_debit |-> 0]
    ELSE LET acc == SummaryLoop(rs, n - 1)
             amt == dec(rs[n]["Total amount"])
         IN  IF SummaryIsCredit(amt)
             THEN [acc EXCEPT !.total_credit = @ + amt, !.count_credit = @ + 1]
             ELSE [acc EXCEPT !.total_debit = @ + abs(amt), !.count_debit = @ + 1]

TxsSummry(rs, t) ==
    LET net == t.total_credit - t.total_debit
    IN  [TtlNtries    |-> [NbOfNtries    |-> str(Len(rs)),
                           Sum           |-> fmt_amt(t.total_credit + t.total_debit),
                           TtlNetNtryAmt |-> fmt_amt(abs(net)),
                           CdtDbtInd     |-> IF net >= 0 THEN S("CRDT") ELSE S("DBIT")],
         TtlCdtNtries |-> [NbOfNtries |-> str(t.count_credit),
                           Sum        |-> fmt_amt(t.total_credit)],
         TtlDbtNtries |-> [NbOfNtries |-> str(t.count_debit),
                           Sum        |-> fmt_amt(t.total_debit)]]

\* first_date taken with max() in place of min()
MinAsMax(xs) == CHOOSE x \in xs : \A y \in xs : x >= y

Min(xs) == CHOOSE x \in xs : \A y \in xs : x <= y

Max(xs) == CHOOSE x \in xs : \A y \in xs : x >= y

\* date.strftime("%Y%m%d")
YmdOf == ("2026-01-15" :> "20260115") @@ ("2026-01-31" :> "20260131")
         @@ ("2026-02-01" :> "20260201")

strftime_Ymd(d) == S(YmdOf[isoformat(d).txt])

(***************************************************************************)
(* Inputs                                                                  *)
(***************************************************************************)
args_iban == S("LT601010012345678901")

Columns == {"Date completed (UTC)", "Total amount", "Balance", "Type",
            "Description", "Reference", "ID", "Payment currency",
            "Orig currency", "Orig amount", "Exchange rate", "Amount",
            "Beneficiary IBAN", "Beneficiary BIC"}

\* a row of a plain export: the optional columns are there and empty
PlainRow == [c \in Columns |-> IF c = "Payment currency" THEN S("EUR")
                               ELSE IF c = "Type" THEN S("CARD_PAYMENT")
                               ELSE S("")]

With(row, c, v) == [row EXCEPT ![c] = v]

\* well-formed statement rows: dates, amounts and balances vary
StatementRows ==
    { With(With(With(PlainRow, "Date completed (UTC)", S(d)),
                "Total amount", S(t)), "Balance", S(b)) :
        d \in {"2026-01-15", "2026-02-01"},
        t \in {"-1.005", "0", "1.005"},
        b \in {"-1.005", "10.00"} }

\* rows whose required fields may be unparsable or missing
MalformedRows ==
    { With(With(With(PlainRow, "Date completed (UTC)", d),
                "Total amount", t), "Balance", b) :
        d \in {S("2026-01-31"), S("31/01/2026")},
        t \in {S("2.50"), S("abc")},
        b \in {S("10.00"), S("n/a")} }

\* rows that vary the currency columns
CurrencyRows ==
    { [PlainRow EXCEPT !["Date completed (UTC)"] = S("2026-01-31"),
                       !["Total amount"] = S(t),
                       !["Balance"] = S(b),
                       !["Payment currency"] = pc_,
                       !["Orig currency"] = oc,
                       !["Orig amount"] = oa,
                       !["Exchange rate"] = xr,
                       !["Amount"] = am] :
        t \in {"-45.455", "2.50"},
        b \in {"10.00", "-1.005"},
        pc_ \in {Absent, S("EUR"), Padded("EUR"), S("USD")},
        oc \in {Absent, None, S(""), Padded(""), S("USD"), Padded("USD"), S("EUR")},
        oa \in {Absent, S(""), S("50.00"), S("-50.005"), S("abc")},
        xr \in {Absent, S(""), S("1.1"), Padded("1.1")},
        am \in {Absent, None, S(""), S("45.454"), S("abc")} }

\* rows that vary the type, the texts and the beneficiary columns
PartyRows ==
    { [PlainRow EXCEPT !["Date completed (UTC)"] = S("2026-01-31"),
                       !["Total amount"] = S(t),
                       !["Balance"] = S("10.00"),
                       !["Type"] = S(ty),
                       !["Description"] = de,
                       !["Reference"] = re,
                       !["ID"] = id,
                       !["Beneficiary IBAN"] = bi,
                       !["Beneficiary BIC"] = bb] :
        t \in {"-2.50", "2.50"},
        ty \in {"TOPUP", "REFUND"},
        de \in {Absent, None, S(""), S("Money added from ACME CORP"), S("Coffee")},
        re \in {Absent, S(""), S("INV-1")},
        id \in {Absent, S("tx-1")},
        bi \in {Absent, S(""), Padded(""), S("DE89370400440532013000"),
                Padded("DE89370400440532013000")},
        bb \in {Absent, None, S(""), Padded(""), S("DEUTDEFF"), Padded("DEUTDEFF")} }

SeqsUpTo(rowset, n) == UNION { [1..m -> rowset] : m \in 0..n }

StatementFiles == SeqsUpTo(StatementRows, MaxRows)

MalformedFiles == SeqsUpTo(MalformedRows, MaxRows)

SingleRowFiles == { <<r>> : r \in CurrencyRows \cup PartyRows }

(***************************************************************************)
(* The run: main                                                           *)
(***************************************************************************)
EmptyStmt == [FrToDt |-> <<>>, Bal |-> <<>>, TxsSummry |-> <<>>, Ntry |-> <<>>]

NoTotals == [total_credit |-> 0, total_debit |-> 0, count_credit |-> 0, count_debit |-> 0]

\* the state when main starts, for a CSV file and an --output argument
Start(files, outputs) ==
    /\ csv_file \in files
    /\ args_output \in outputs
    /\ pc = "read_csv"
    /\ rows = <<>>
    /\ first_date = 0
    /\ last_date = 0
    /\ opening_balance = 0
    /\ closing_balance = 0
    /\ totals = NoTotals
    /\ stmt = EmptyStmt
    /\ idx = 0
    /\ tree = <<>>
    /\ output_path = <<>>
    /\ out_opens = 0
    /\ out_file = [exists |-> FALSE, content |-> <<>>]
    /\ exit_status = -1

Init == Start(StatementFiles, {None})

InitMalformed == Start(MalformedFiles, {None, S("out.xml")})

InitRows == Start(SingleRowFiles, {S("out.xml")})

\* sys.exit(1), or an exception that nothing catches: the process ends with status 1
Exit1 ==
    /\ pc' = "done"
    /\ exit_status' = 1
    /\ UNCHANGED <<csv_file, args_output, rows, first_date, last_date,
                   opening_balance, closing_balance, totals, stmt, idx, tree,
                   output_path, out_opens, out_file>>

\* rows = read_csv(args.input)
ReadCsv ==
    /\ pc = "read_csv"
    /\ rows' = read_csv(csv_file)
    /\ pc' = "main_check"
    /\ UNCHANGED <<csv_file, args_output, first_date, last_date, opening_balance,
                   closing_balance, totals, stmt, idx, tree, output_path,
                   out_opens, out_file, exit_status>>

\* if not rows: sys.exit(1)
MainCheck ==
    /\ pc = "main_check"
    /\ IF rows = <<>>
       THEN Exit1
       ELSE /\ pc' = "build_xml"
            /\ UNCHANGED <<csv_file, args_output, rows, first_date, last_date,
                           opening_balance, closing_balance, totals, stmt, idx,
                           tree, output_path, out_opens, out_file, exit_status>>

\* build_xml up to the two balances
BuildXmlHead_raises ==
    \/ \E i \in 1..Len(rows) :
          \/ GetItemRaises(rows[i], "Date completed (UTC)")
          \/ parse_date_raises(rows[i]["Date completed (UTC)"])
    \/ GetItemRaises(rows[1], "Balance")
    \/ dec_raises(rows[1]["Balance"])
    \/ GetItemRaises(rows[1], "Total amount")
    \/ dec_raises(rows[1]["Total amount"])
    \/ GetItemRaises(rows[Len(rows)], "Balance")
    \/ dec_raises(rows[Len(rows)]["Balance"])

BuildXmlHead ==
    /\ pc = "build_xml"
    /\ IF rows = <<>> \/ BuildXmlHead_raises
       THEN Exit1
       ELSE LET dates == { parse_date(rows[i]["Date completed (UTC)"]) : i \in 1..Len(rows) }
                first == Min(dates)
                last == Max(dates)
                opening == dec(rows[1]["Balance"]) - dec(rows[1]["Total amount"])
                closing == dec(rows[Len(rows)]["Balance"])
            IN  /\ first_date' = first
                /\ last_date' = last
                /\ opening_balance' = opening
                /\ closing_balance' = closing
                /\ stmt' = [stmt EXCEPT
                              !.FrToDt = <<[FrDtTm |-> isoformat(first),
                                            ToDtTm |-> isoformat(last)]>>,
                              !.Bal = <<_add_balance("PRCD", opening, first),
                                        _add_balance("CLBD", closing, last)>>]
                /\ pc' = "summary"
                /\ UNCHANGED <<csv_file, args_output, rows, totals, idx, tree,
                               output_path, out_opens, out_file, exit_status>>

\* the aggregation pass and the TxsSummry block
BuildXmlSummary ==
    /\ pc = "summary"
    /\ IF \E i \in 1..Len(rows) : \/ GetItemRaises(rows[i], "Total amount")
                                  \/ dec_raises(rows[i]["Total amount"])
       THEN Exit1
       ELSE /\ totals' = SummaryLoop(rows, Len(rows))
            /\ stmt' = [stmt EXCEPT !.TxsSummry = <<TxsSummry(rows, totals')>>]
            /\ idx' = 0
            /\ pc' = "entries"
            /\ UNCHANGED <<csv_file, args_output, rows, first_date, last_date,
                           opening_balance, closing_balance, tree, output_path,
                           out_opens, out_file, exit_status>>

\* enumerate(rows) without start=1
EnumerateFromZero == 0

\* enumerate(rows, start=1)
EnumerateStart == 1

\* one iteration of "for idx, r in enumerate(rows, start=1)"; the variable
\* idx counts the iterations done
AddEntry ==
    /\ pc = "entries"
    /\ idx < Len(rows)
    /\ IF _add_entry_raises(rows[idx + 1])
       THEN Exit1
       ELSE /\ stmt' = [stmt EXCEPT !.Ntry =
                          Append(@, _add_entry(rows[idx + 1], EnumerateStart + idx, args_iban))]
            /\ idx' = idx + 1
            /\ UNCHANGED <<csv_file, args_output, pc, rows, first_date, last_date,
                           opening_balance, closing_balance, totals, tree,
                           output_path, out_opens, out_file, exit_status>>

\* return ElementTree(root)
BuildXmlReturn ==
    /\ pc = "entries"
    /\ idx >= Len(rows)
    /\ tree' = <<stmt>>
    /\ pc' = "output_path"
    /\ UNCHANGED <<csv_file, args_output, rows, first_date, last_date,
                   opening_balance, closing_balance, totals, stmt, idx,
                   output_path, out_opens, out_file, exit_status>>

\* the choice of the output path, then indent(tree)
OutputPath ==
    /\ pc = "output_path"
    /\ output_path' =
          IF args_output.k = "str" /\ Truthy(args_output)
          THEN <<args_output>>
          ELSE LET dates == { parse_date(rows[i]["Date completed (UTC)"]) : i \in 1..Len(rows) }
               IN  <<args_iban, strftime_Ymd(Min(dates)), strftime_Ymd(Max(dates))>>
    /\ pc' = "open"
    /\ UNCHANGED <<csv_file, args_output, rows, first_date, last_date,
                   opening_balance, closing_balance, totals, stmt, idx, tree,
                   out_opens, out_file, exit_status>>

\* open(output_path, "wb") creates or truncates the file
OpenOutput ==
    /\ pc = "open"
    /\ out_opens' = out_opens + 1
    /\ out_file' = [exists |-> TRUE, content |-> <<>>]
    /\ pc' = "write"
    /\ UNCHANGED <<csv_file, args_output, rows, first_date, last_date,
                   opening_balance, closing_balance, totals, stmt, idx, tree,
                   output_path, exit_status>>

\* tree.write(f, ...) and the end of the with block
TreeWrite ==
    /\ pc = "write"
    /\ out_file' = [out_file EXCEPT !.content = tree]
    /\ pc' = "print"
    /\ UNCHANGED <<csv_file, args_output, rows, first_date, last_date,
                   opening_balance, closing_balance, totals, stmt, idx, tree,
                   output_path, out_opens, exit_status>>

\* the console summary, then the normal end of main
PrintSummary ==
    /\ pc = "print"
    /\ pc' = "done"
    /\ exit_status' = 0
    /\ UNCHANGED <<csv_file, args_output, rows, first_date, last_date,
                   opening_balance, closing_balance, totals, stmt, idx, tree,
                   output_path, out_opens, out_file>>

Next ==
    \/ ReadCsv
    \/ MainCheck
    \/ BuildXmlHead
    \/ BuildXmlSummary
    \/ AddEntry
    \/ BuildXmlReturn
    \/ OutputPath
    \/ OpenOutput
    \/ TreeWrite
    \/ PrintSummary

Spec == Init /\ [][Next]_vars

SpecMalformed == InitMalformed /\ [][Next]_vars

SpecRows == InitRows /\ [][Next]_vars

(***************************************************************************)
(* Properties                                                              *)
(***************************************************************************)
DATE == "Date completed (UTC)"

TOTAL == "Total amount"

BALANCE == "Balance"

\* the run ended normally: the document was written
Succeeded == pc = "done" /\ exit_status = 0

\* the document in the output file
Doc == out_file.content[1]

\* the value, in hundredths, of a rendered amount
Cents(r) == 100 * r.units + 10 * r.d1 + r.d2

\* r is the magnitude of d (thousandths) with exactly two decimals, rounded half-up
RendersHalfUp(r, d) ==
    /\ ~r.neg
    /\ r.units \in Nat
    /\ r.d1 \in 0..9
    /\ r.d2 \in 0..9
    /\ 10 * Cents(r) - 5 <= abs(d)
    /\ abs(d) <= 10 * Cents(r) + 4

\* the completed date of a row whose date text is a date literal
DateIn(row) == DateOf[row[DATE].txt]

\* the total amount of a row whose amount text is a decimal literal or empty
TotalIn(row) == IF row[TOTAL].txt = "" THEN 0 ELSE DecimalOf[row[TOTAL].txt]

BalanceIn(row) == IF row[BALANCE].txt = "" THEN 0 ELSE DecimalOf[row[BALANCE].txt]

\* the file lists its rows newest first
NewestFirst(f) == \A i, j \in 1..Len(f) : i < j => DateIn(f[i]) >= DateIn(f[j])

\* the required fields of a row parse
RequiredParseable(row) ==
    /\ row[DATE].k = "str" /\ ~row[DATE].pad /\ row[DATE].txt \in DOMAIN DateOf
    /\ row[TOTAL].k = "str"
    /\ row[TOTAL].txt = "" \/ row[TOTAL].txt \in DOMAIN DecimalOf
    /\ row[BALANCE].k = "str"
    /\ row[BALANCE].txt = "" \/ row[BALANCE].txt \in DOMAIN DecimalOf

RECURSIVE SumOver(_, _)
SumOver(f, I) ==
    IF I = {} THEN 0
    ELSE LET i == CHOOSE x \in I : TRUE IN abs(f[i]) + SumOver(f, I \ {i})

\* C1 (as stated): in the document of every well-formed input the entries'
\* booking dates are strictly increasing in output order, whatever the order
\* and the dates of the file's rows.
C1_StrictlyIncreasing ==
    Succeeded =>
        \A i, j \in 1..Len(Doc.Ntry) :
            i < j => DateOf[Doc.Ntry[i].BookgDt.txt] < DateOf[Doc.Ntry[j].BookgDt.txt]

\* C1 (amended): when the file lists its rows newest first, the entries'
\* booking dates never decrease in output order (equal dates stay adjacent).
C1_NonDecreasingWhenNewestFirst ==
    (Succeeded /\ NewestFirst(csv_file)) =>
        \A i, j \in 1..Len(Doc.Ntry) :
            i < j => DateOf[Doc.Ntry[i].BookgDt.txt] <= DateOf[Doc.Ntry[j].BookgDt.txt]

C1_Witness ==
    /\ Succeeded
    /\ NewestFirst(csv_file)
    /\ Len(Doc.Ntry) >= 2
    /\ DateOf[Doc.Ntry[1].BookgDt.txt] < DateOf[Doc.Ntry[Len(Doc.Ntry)].BookgDt.txt]

\* C2: a non-empty input of N rows yields exactly N entries; the k-th entry is
\* built from the (N-k+1)-th row of the file and carries k as its NtryRef and
\* as its AcctSvcrRef; NbOfNtries of TtlNtries is N.
C2_DenseSequence ==
    (pc = "done" /\ csv_file # <<>>) =>
        /\ exit_status = 0
        /\ Len(Doc.Ntry) = Len(csv_file)
        /\ Doc.TxsSummry[1].TtlNtries.NbOfNtries = S(ToString(Len(csv_file)))
        /\ \A k \in 1..Len(csv_file) :
              LET e == Doc.Ntry[k]
                  src == csv_file[Len(csv_file) - k + 1]
              IN  /\ e.NtryRef = S(ToString(k))
                  /\ e.Refs.AcctSvcrRef = S(ToString(k))
                  /\ e.BookgDt = src[DATE]
                  /\ RendersHalfUp(e.Amt.Amt, TotalIn(src))
                  /\ (e.CdtDbtInd = S("CRDT")) <=> (TotalIn(src) >= 0)

C2_Witness ==
    /\ Succeeded
    /\ Len(Doc.Ntry) >= 2
    /\ csv_file[1] # csv_file[Len(csv_file)]
    /\ Doc.Ntry[Len(Doc.Ntry)].NtryRef = S(ToString(Len(csv_file)))

\* C3: the opening balance is the first record's balance minus its total
\* amount and the closing balance is the last record's balance (positions in
\* the loader's sequence); each is emitted as its magnitude, with CRDT when it
\* is >= 0 and DBIT when it is negative.
C3_Balances ==
    Succeeded =>
        LET opening == BalanceIn(rows[1]) - TotalIn(rows[1])
            closing == BalanceIn(rows[Len(rows)])
        IN  /\ opening_balance = opening
            /\ closing_balance = closing
            /\ Len(Doc.Bal) = 2
            /\ Doc.Bal[1].Cd = S("PRCD")
            /\ RendersHalfUp(Doc.Bal[1].Amt, opening)
            /\ Doc.Bal[1].CdtDbtInd = IF opening >= 0 THEN S("CRDT") ELSE S("DBIT")
            /\ Doc.Bal[2].Cd = S("CLBD")
            /\ RendersHalfUp(Doc.Bal[2].Amt, closing)
            /\ Doc.Bal[2].CdtDbtInd = IF closing >= 0 THEN S("CRDT") ELSE S("DBIT")

C3_Witness ==
    /\ Succeeded
    /\ Len(rows) >= 2
    /\ opening_balance = 0
    /\ closing_balance < 0
    /\ rows[1] # rows[Len(rows)]

\* C4: the aggregation pass counts every record once, as a credit when its
\* total amount is >= 0 and as a debit otherwise; the credit sum is the sum of
\* the non-negative amounts, the debit sum the sum of the magnitudes of the
\* negative ones; TtlNetNtryAmt is |credit sum - debit sum| with CRDT when the
\* net is >= 0 and DBIT otherwise; the Sum of TtlNtries is credit sum + debit sum.
C4_Summary ==
    Succeeded =>
        LET amts == [i \in 1..Len(rows) |-> TotalIn(rows[i])]
            credits == { i \in 1..Len(rows) : amts[i] >= 0 }
            debits == { i \in 1..Len(rows) : amts[i] < 0 }
            net == SumOver(amts, credits) - SumOver(amts, debits)
            t == Doc.TxsSummry[1]
        IN  /\ totals.count_credit = Cardinality(credits)
            /\ totals.count_debit = Cardinality(debits)
            /\ totals.count_credit + totals.count_debit = Len(Doc.Ntry)
            /\ totals.total_credit = SumOver(amts, credits)
            /\ totals.total_debit = SumOver(amts, debits)
            /\ t.TtlCdtNtries.NbOfNtries = S(ToString(Cardinality(credits)))
            /\ t.TtlDbtNtries.NbOfNtries = S(ToString(Cardinality(debits)))
            /\ RendersHalfUp(t.TtlCdtNtries.Sum, SumOver(amts, credits))
            /\ RendersHalfUp(t.TtlDbtNtries.Sum, SumOver(amts, debits))
            /\ RendersHalfUp(t.TtlNtries.TtlNetNtryAmt, net)
            /\ t.TtlNtries.CdtDbtInd = IF net >= 0 THEN S("CRDT") ELSE S("DBIT")
            /\ RendersHalfUp(t.TtlNtries.Sum, SumOver(amts, credits) + SumOver(amts, debits))

C4_Witness ==
    /\ Succeeded
    /\ \E i \in 1..Len(rows) : TotalIn(rows[i]) = 0
    /\ totals.count_debit > 0
    /\ totals.total_credit = totals.total_debit

\* C5: the output file is opened at most once, and only after the rows were
\* found non-empty and the whole tree was built; a run on zero rows, or on a
\* file in which any row has an unparsable completion date, total amount or
\* balance, ends with a non-zero status and no output file; no run ends with
\* an output file that holds only part of the entries.
C5_NoOutputOnError ==
    /\ out_opens <= 1
    /\ out_opens = 1 =>
          /\ rows # <<>>
          /\ tree = <<stmt>>
          /\ Len(stmt.Bal) = 2
          /\ Len(stmt.TxsSummry) = 1
          /\ Len(stmt.Ntry) = Len(rows)
    /\ (pc = "done" /\ (csv_file = <<>>
                        \/ \E i \in 1..Len(csv_file) : ~RequiredParseable(csv_file[i]))) =>
          /\ exit_status # 0
          /\ out_opens = 0
          /\ ~out_file.exists
    /\ (pc = "done" /\ out_file.exists) =>
          /\ out_file.content = tree
          /\ Len(Doc.Ntry) = Len(csv_file)

\* C6: a row whose completion date, total amount and balance parse always
\* yields an entry: no state of the optional fields (column absent, value
\* missing, empty, not a number) ends the run with an error.
C6_OptionalNeverFatal ==
    (pc = "done" /\ \A i \in 1..Len(csv_file) : RequiredParseable(csv_file[i])) =>
        /\ exit_status = 0
        /\ Len(Doc.Ntry) = Len(csv_file)

\* the amount details of entry k, against the fields of its record as the
\* mapper reads them; rate is the exchange-rate text the claim expects
AmtDtlsAsClaimed(k, rate) ==
    LET e == Doc.Ntry[k]
        r == rows[k]
        pay == strip(Get(r, "Payment currency", S("EUR")))
        oc == strip(Get(r, "Orig currency", S("")))
        oa == strip(Get(r, "Orig amount", S("")))
        xr == strip(Get(r, "Exchange rate", S("")))
        am == Get(r, "Amount", S("0"))
        foreign == /\ oc.txt # ""
                   /\ oc # pay
                   /\ oa.txt # ""
                   /\ xr.txt # ""
    IN  /\ Len(e.AmtDtls.InstdAmt) = 1
        /\ (Len(e.AmtDtls.CntrValAmt) = 1) <=> foreign
        /\ foreign =>
              /\ e.AmtDtls.InstdAmt[1].Ccy = oc
              /\ RendersHalfUp(e.AmtDtls.InstdAmt[1].Amt, DecimalOf[oa.txt])
              /\ e.AmtDtls.CntrValAmt[1].Ccy = pay
              /\ RendersHalfUp(e.AmtDtls.CntrValAmt[1].Amt,
                               IF am.txt = "" THEN 0 ELSE DecimalOf[am.txt])
              /\ e.AmtDtls.CntrValAmt[1].CcyXchg.SrcCcy = oc
              /\ e.AmtDtls.CntrValAmt[1].CcyXchg.TrgtCcy = pay
              /\ e.AmtDtls.CntrValAmt[1].CcyXchg.XchgRate = rate
        /\ ~foreign =>
              /\ e.AmtDtls.InstdAmt[1].Ccy = pay
              /\ RendersHalfUp(e.AmtDtls.InstdAmt[1].Amt, TotalIn(r))
              /\ e.AmtDtls.CntrValAmt = <<>>

\* C7 (as stated): an entry holds a foreign-exchange pair exactly when the
\* original currency is non-empty, differs from the payment currency, and the
\* original amount and the exchange rate are non-empty; then InstdAmt is the
\* magnitude of the original amount in the original currency, CntrValAmt the
\* magnitude of the pre-fee Amount in the payment currency, and the rate is
\* the text exactly as in the input; otherwise the only amount is one InstdAmt
\* of |total amount| in the payment currency.
C7_RateExactlyAsInput ==
    Succeeded =>
        \A k \in 1..Len(Doc.Ntry) :
            AmtDtlsAsClaimed(k, Get(rows[k], "Exchange rate", S("")))

\* C7 (amended): as stated, but the rate is the input text with its
\* surrounding whitespace removed.
C7_RateTrimmed ==
    Succeeded =>
        \A k \in 1..Len(Doc.Ntry) :
            AmtDtlsAsClaimed(k, [Get(rows[k], "Exchange rate", S("")) EXCEPT !.pad = FALSE])

C7_Witness ==
    /\ Succeeded
    /\ Len(Doc.Ntry[1].AmtDtls.CntrValAmt) = 1
    /\ rows[1]["Exchange rate"].pad
    /\ rows[1]["Amount"].txt = "45.454"
    /\ rows[1][TOTAL].txt = "-45.455"

\* the exact amounts behind the rendered amounts of entry k
EntryAmountsHalfUp(k) ==
    LET e == Doc.Ntry[k]
        r == rows[k]
    IN  /\ RendersHalfUp(e.Amt.Amt, TotalIn(r))
        /\ (e.CdtDbtInd = S("DBIT")) <=> (TotalIn(r) < 0)
        /\ IF e.AmtDtls.CntrValAmt = <<>>
           THEN RendersHalfUp(e.AmtDtls.InstdAmt[1].Amt, TotalIn(r))
           ELSE /\ RendersHalfUp(e.AmtDtls.InstdAmt[1].Amt, DecimalOf[r["Orig amount"].txt])
                /\ RendersHalfUp(e.AmtDtls.CntrValAmt[1].Amt,
                                 IF r["Amount"].txt = "" THEN 0
                                 ELSE DecimalOf[r["Amount"].txt])

\* C8: every rendered amount (entry amounts, balances, summary sums,
\* instructed and counter-value amounts) is the magnitude of the exact decimal
\* with exactly two decimals, rounded half-up; the sign shows only in the
\* direction indicator.
C8_HalfUpRendering ==
    Succeeded =>
        /\ \A k \in 1..Len(Doc.Ntry) : EntryAmountsHalfUp(k)
        /\ RendersHalfUp(Doc.Bal[1].Amt, opening_balance)
        /\ (Doc.Bal[1].CdtDbtInd = S("DBIT")) <=> (opening_balance < 0)
        /\ RendersHalfUp(Doc.Bal[2].Amt, closing_balance)
        /\ (Doc.Bal[2].CdtDbtInd = S("DBIT")) <=> (closing_balance < 0)
        /\ RendersHalfUp(Doc.TxsSummry[1].TtlNtries.Sum,
                         totals.total_credit + totals.total_debit)
        /\ RendersHalfUp(Doc.TxsSummry[1].TtlNtries.TtlNetNtryAmt,
                         totals.total_credit - totals.total_debit)
        /\ RendersHalfUp(Doc.TxsSummry[1].TtlCdtNtries.Sum, totals.total_credit)
        /\ RendersHalfUp(Doc.TxsSummry[1].TtlDbtNtries.Sum, totals.total_debit)

C8_Witness ==
    /\ Succeeded
    /\ rows[1][TOTAL].txt = "-45.455"
    /\ Doc.Ntry[1].Amt.Amt = [neg |-> FALSE, units |-> 45, d1 |-> 4, d2 |-> 6]
    /\ Doc.Ntry[1].CdtDbtInd = S("DBIT")
    /\ rows[1][BALANCE].txt = "-1.005"
    /\ Doc.Bal[2].Amt = [neg |-> FALSE, units |-> 1, d1 |-> 0, d2 |-> 1]
    /\ Doc.Bal[2].CdtDbtInd = S("DBIT")
    /\ Len(Doc.Ntry[1].AmtDtls.CntrValAmt) = 1

\* C9: the creditor party, account and agent are there exactly in credit
\* entries; a debit entry has the account owner, the statement's IBAN and the
\* servicing bank on the debtor side whatever the row holds; a credit entry
\* has them on the creditor side, the beneficiary BIC (the servicing bank's
\* when it is empty) as the debtor agent, and a debtor account exactly when
\* the beneficiary IBAN is non-empty.
C9_RolesByDirection ==
    Succeeded =>
        \A k \in 1..Len(Doc.Ntry) :
            LET e == Doc.Ntry[k]
                r == rows[k]
                credit == TotalIn(r) >= 0
                bic == Get(r, "Beneficiary BIC", S("")).txt
                ben == Get(r, "Beneficiary IBAN", S("")).txt
            IN  /\ (e.RltdPties.Cdtr # <<>>) <=> credit
                /\ (e.RltdPties.CdtrAcct # <<>>) <=> credit
                /\ (e.RltdAgts.CdtrAgt # <<>>) <=> credit
                /\ Len(e.RltdPties.Dbtr) = 1
                /\ Len(e.RltdAgts.DbtrAgt) = 1
                /\ ~credit =>
                      /\ e.RltdPties.Dbtr[1].Nm = ACCOUNT_OWNER
                      /\ Len(e.RltdPties.DbtrAcct) = 1
                      /\ e.RltdPties.DbtrAcct[1].IBAN = args_iban
                      /\ e.RltdAgts.DbtrAgt[1].BIC = SERVICER_BIC
                /\ credit =>
                      /\ e.RltdPties.Cdtr[1].Nm = ACCOUNT_OWNER
                      /\ e.RltdPties.CdtrAcct[1].IBAN = args_iban
                      /\ e.RltdAgts.CdtrAgt[1].BIC = SERVICER_BIC
                      /\ e.RltdAgts.DbtrAgt[1].BIC.txt =
                            (IF bic # "" THEN bic ELSE SERVICER_BIC.txt)
                      /\ (e.RltdPties.DbtrAcct # <<>>) <=> (ben # "")
                      /\ ben # "" => e.RltdPties.DbtrAcct[1].IBAN.txt = ben

C9_Witness ==
    /\ Succeeded
    /\ TotalIn(rows[1]) >= 0
    /\ Doc.Ntry[1].RltdAgts.DbtrAgt[1].BIC = S("DEUTDEFF")
    /\ Len(Doc.Ntry[1].RltdPties.DbtrAcct) = 1
    /\ Len(Doc.Ntry[1].RltdPties.Cdtr) = 1

\* the as-of dates of the two balances are the dates of the records the
\* balances were taken from
BalanceDatesOfOwnRecords ==
    /\ Doc.Bal[1].Dt = isoformat(DateIn(rows[1]))
    /\ Doc.Bal[2].Dt = isoformat(DateIn(rows[Len(rows)]))

\* C10 (as stated): for every input, the PRCD date is the completed date of
\* the first record of the loader's sequence and the CLBD date that of the
\* last record.
C10_BalanceDatesAnyOrder == Succeeded => BalanceDatesOfOwnRecords

\* C10 (amended): the same, for the files that list their rows newest first.
C10_BalanceDatesWhenNewestFirst ==
    (Succeeded /\ NewestFirst(csv_file)) => BalanceDatesOfOwnRecords

C10_Witness ==
    /\ Succeeded
    /\ NewestFirst(csv_file)
    /\ Len(rows) >= 2
    /\ first_date < last_date
    /\ Doc.Bal[1].Dt # Doc.Bal[2].Dt

====
